---- MODULE Spec2Model ----
(***************************************************************************)
(* Photo grouping service of listing-assistant (photoGroupingService.ts):  *)
(* dHash fingerprints, Hamming similarity, the greedy and the              *)
(* average-linkage clustering passes, and the merge / split corrections.   *)
(*                                                                         *)
(* Specifications: Spec, a grouping call step by step; SpecCluster, the    *)
(* call as a function of its arguments; SpecGreedy and SpecAdvanced, the   *)
(* same with one strategy each; SpecCorrect, a GroupSet under corrections; *)
(* SpecFn, direct calls of the exported functions; SpecHeap, the           *)
(* corrections on objects held by reference.                               *)
(*                                                                         *)
(* Numbers: similarities, thresholds and confidences are exact rationals   *)
(* [n, d] kept in lowest terms (d > 0).  The hash is HashRows x HashCols   *)
(* bits (8 x 8 in the source), scaled down by the bounds below.            *)
(***************************************************************************)
EXTENDS Integers, Sequences, FiniteSets, TLC

VARIABLES
    photoPaths,           \* argument photoPaths of the grouping call
    similarityThreshold,  \* argument similarityThreshold, a rational
    strategy,             \* "greedy": groupPhotosByItem, "advanced": groupPhotosByItemAdvanced
    pc,                   \* "called", "await" (inside Promise.all), "returned", "rejected"
    photoHashes,          \* result slots of Promise.all: Pending or a PhotoHash
    groups,               \* the PhotoGroup[] returned, later the caller's GroupSet
    lastCall,             \* the last correction call: its arguments and what it returned
    corrections,          \* number of corrections applied so far
    heap                  \* the objects and arrays a direct call of a correction works on

vars == <<photoPaths, similarityThreshold, strategy, pc, photoHashes, groups,
          lastCall, corrections, heap>>

----------------------------------------------------------------------------
(* Bounds *)

HashRows == 2

HashCols == 4

NumPaths == 6

MaxPhotos == 4

MaxBatch == 3

ThreshDen == 8

MaxCorrections == 2

HashLen == HashRows * HashCols

----------------------------------------------------------------------------
(* Exact rationals *)

RECURSIVE Gcd(_, _)
Gcd(a, b) == IF b = 0 THEN a ELSE Gcd(b, a % b)

Abs(x) == IF x < 0 THEN -x ELSE x

Rat(n, d) ==
    LET g == Gcd(Abs(n), d) IN [n |-> n \div g, d |-> d \div g]

RatAdd(a, b) == Rat(a.n * b.d + b.n * a.d, a.d * b.d)

RatMul(a, b) == Rat(a.n * b.n, a.d * b.d)

RatDivInt(a, k) == Rat(a.n, a.d * k)

RatGeq(a, b) == a.n * b.d >= b.n * a.d

RatGt(a, b) == a.n * b.d > b.n * a.d

RatMin(a, b) == IF RatGeq(b, a) THEN a ELSE b

Zero == Rat(0, 1)

One == Rat(1, 1)

----------------------------------------------------------------------------
(* The files on disk.  Path 0 names a file that cannot be decoded; paths   *)
(* 1..NumPaths decode to the raw grayscale buffer RawPixels(p), of         *)
(* HashRows rows of HashCols + 1 pixels.                                   *)

Paths == 1 .. NumPaths

UnreadablePath == 0

Readable(p) == p \in Paths

\* The bit positions (1-based, row-major) at which file p's left pixel is
\* brighter than its right neighbour.
OnesOf(p) ==
    CASE p = 1 -> {}
      [] p = 2 -> {1, 2, 3}
      [] p = 3 -> {1, 2, 3, 4}
      [] p = 4 -> {4, 5}
      [] p = 5 -> {6, 7}
      [] p = 6 -> 1 .. HashLen
      [] OTHER -> {1, (p % HashLen) + 1}

\* Intensity of pixel (row, col), 0-based, col in 0..HashCols: it drops by
\* one to the right exactly where the file's bit is set.
Pixel(p, row, col) ==
    Cardinality({c \in col .. (HashCols - 1) : (row * HashCols + c + 1) \in OnesOf(p)})

\* data of toBuffer(): row-major, HashCols + 1 pixels per row.
RawPixels(p) ==
    [k \in 1 .. (HashRows * (HashCols + 1)) |->
        Pixel(p, (k - 1) \div (HashCols + 1), (k - 1) % (HashCols + 1))]

----------------------------------------------------------------------------
(* Fingerprint and distance *)

\* Faulty variant: a bit is set for equal neighbours too.
differenceHashOrEqual(data) ==
    LET W == HashCols + 1
    IN  [b \in 1 .. HashLen |->
            LET row == (b - 1) \div HashCols
                col == (b - 1) % HashCols
                left == data[row * W + col + 1]
                right == data[row * W + col + 2]
            IN  IF left >= right THEN 1 ELSE 0]

\* The two loops over the decoded buffer: one bit per row and column, pushed
\* in row-major order.
differenceHash(data) ==
    LET W == HashCols + 1
    IN  [b \in 1 .. HashLen |->
            LET row == (b - 1) \div HashCols
                col == (b - 1) % HashCols
                left == data[row * W + col + 1]
                right == data[row * W + col + 2]
            IN  IF left > right THEN 1 ELSE 0]

generatePhotoHash(imagePath) == differenceHash(RawPixels(imagePath))

LengthMismatch == -1

\* Faulty variant: no length check; a position past the end of hash2 reads
\* undefined and counts as differing.
calculateHammingDistanceNoCheck(hash1, hash2) ==
    Cardinality({i \in 1 .. Len(hash1) : i > Len(hash2) \/ hash1[i] # hash2[i]})

calculateHammingDistance(hash1, hash2) ==
    IF Len(hash1) # Len(hash2)
    THEN LengthMismatch
    ELSE Cardinality({i \in 1 .. Len(hash1) : hash1[i] # hash2[i]})

\* 1 - 0 / 0
NaN == [n |-> 0, d |-> 0]

\* Faulty variant: the share of differing bits, not of agreeing ones.
calculateSimilarityOfDistance(hash1, hash2) ==
    LET distance == calculateHammingDistance(hash1, hash2)
        maxDistance == Len(hash1)
    IN  IF distance = LengthMismatch THEN LengthMismatch
        ELSE IF maxDistance = 0 THEN NaN
        ELSE Rat(distance, maxDistance)

\* The error of calculateHammingDistance passes through; two empty strings
\* give 1 - 0 / 0.
calculateSimilarity(hash1, hash2) ==
    LET distance == calculateHammingDistance(hash1, hash2)
        maxDistance == Len(hash1)
    IN  IF distance = LengthMismatch THEN LengthMismatch
        ELSE IF maxDistance = 0 THEN NaN
        ELSE Rat(maxDistance - distance, maxDistance)

----------------------------------------------------------------------------
(* Values *)

Pending == [pending |-> TRUE]

PhotoHash(p, h) == [path |-> p, hash |-> h]

\* The fingerprints of the files, computed once.
HashOnDisk == [p \in Paths |-> generatePhotoHash(p)]

\* id `item-${k}`
ItemId(k) == <<"item", k>>

\* id `${id}-split`
SplitId(id) == Append(id, "split")

Conf085 == Rat(85, 100)

Conf05 == Rat(5, 10)

\* Faulty variant: a factor above 1.
Factor11 == Rat(11, 10)

Factor09 == Rat(9, 10)

PhotoGroup(id, photos, primaryPhoto, confidence) ==
    [id |-> id, photos |-> photos, primaryPhoto |-> primaryPhoto,
     confidence |-> confidence]

----------------------------------------------------------------------------
(* groupPhotosByItem: the greedy pass *)

\* Faulty variant: the comparison turned round (similarity <= similarityThreshold).
GreedyAcceptsBelow(similarity, threshold) == RatGeq(threshold, similarity)

\* Faulty variant: a photo exactly at the threshold is refused.
GreedyAcceptsAbove(similarity, threshold) == RatGt(similarity, threshold)

\* similarity >= similarityThreshold
GreedyAccepts(similarity, threshold) == RatGeq(similarity, threshold)

\* Faulty variant: the inner loop without assigned.add(j).
RECURSIVE GreedyScanNoMark(_, _, _, _, _, _)
GreedyScanNoMark(hs, i, j, group, assigned, threshold) ==
    IF j > Len(hs) THEN [group |-> group, assigned |-> assigned]
    ELSE IF j \in assigned THEN GreedyScanNoMark(hs, i, j + 1, group, assigned, threshold)
    ELSE IF RatGeq(calculateSimilarity(hs[i].hash, hs[j].hash), threshold)
         THEN GreedyScanNoMark(hs, i, j + 1, Append(group, hs[j].path),
                               assigned, threshold)
         ELSE GreedyScanNoMark(hs, i, j + 1, group, assigned, threshold)

\* Faulty variant: a photo is compared with the photo that joined last, not
\* with the seed.
RECURSIVE GreedyScanChained(_, _, _, _, _, _)
GreedyScanChained(hs, i, j, group, assigned, threshold) ==
    IF j > Len(hs) THEN [group |-> group, assigned |-> assigned]
    ELSE IF j \in assigned THEN GreedyScanChained(hs, i, j + 1, group, assigned, threshold)
    ELSE IF GreedyAccepts(calculateSimilarity(hs[i].hash, hs[j].hash), threshold)
         THEN GreedyScanChained(hs, j, j + 1, Append(group, hs[j].path),
                                assigned \cup {j}, threshold)
         ELSE GreedyScanChained(hs, i, j + 1, group, assigned, threshold)

\* inner loop: for (let j = i + 1; j < photoHashes.length; j++)
RECURSIVE GreedyScan(_, _, _, _, _, _)
GreedyScan(hs, i, j, group, assigned, threshold) ==
    IF j > Len(hs) THEN [group |-> group, assigned |-> assigned]
    ELSE IF j \in assigned THEN GreedyScan(hs, i, j + 1, group, assigned, threshold)
    ELSE IF GreedyAccepts(calculateSimilarity(hs[i].hash, hs[j].hash), threshold)
         THEN GreedyScan(hs, i, j + 1, Append(group, hs[j].path),
                         assigned \cup {j}, threshold)
         ELSE GreedyScan(hs, i, j + 1, group, assigned, threshold)

\* Faulty variant: the higher confidence from one photo on.
GreedyConfidenceFromOne(group) == IF Len(group) >= 1 THEN Conf085 ELSE Conf05

\* Faulty variant: the higher confidence only from three photos on.
GreedyConfidenceFromThree(group) == IF Len(group) > 2 THEN Conf085 ELSE Conf05

GreedyConfidence(group) == IF Len(group) > 1 THEN Conf085 ELSE Conf05

\* Faulty variant: each new group is put in front of the earlier ones.
RECURSIVE GreedyLoopUnshift(_, _, _, _, _)
GreedyLoopUnshift(hs, i, gs, assigned, threshold) ==
    IF i > Len(hs) THEN gs
    ELSE IF i \in assigned THEN GreedyLoopUnshift(hs, i + 1, gs, assigned, threshold)
    ELSE LET r == GreedyScan(hs, i, i + 1, <<hs[i].path>>, assigned \cup {i}, threshold)
             g == PhotoGroup(ItemId(Len(gs) + 1), r.group, r.group[1],
                             GreedyConfidence(r.group))
         IN  GreedyLoopUnshift(hs, i + 1, <<g>> \o gs, r.assigned, threshold)

\* outer loop: for (let i = 0; i < photoHashes.length; i++)
RECURSIVE GreedyLoop(_, _, _, _, _)
GreedyLoop(hs, i, gs, assigned, threshold) ==
    IF i > Len(hs) THEN gs
    ELSE IF i \in assigned THEN GreedyLoop(hs, i + 1, gs, assigned, threshold)
    ELSE LET r == GreedyScan(hs, i, i + 1, <<hs[i].path>>, assigned \cup {i}, threshold)
             g == PhotoGroup(ItemId(Len(gs) + 1), r.group, r.group[1],
                             GreedyConfidence(r.group))
         IN  GreedyLoop(hs, i + 1, Append(gs, g), r.assigned, threshold)

\* the part of groupPhotosByItem after the hashes are in
GreedyGroups(hs, threshold) == GreedyLoop(hs, 1, <<>>, {}, threshold)

----------------------------------------------------------------------------
(* groupPhotosByItemAdvanced: the average-linkage pass *)

similarityMatrix(hs) ==
    [i \in 1 .. Len(hs) |-> [j \in 1 .. Len(hs) |->
        IF i = j THEN One ELSE calculateSimilarity(hs[i].hash, hs[j].hash)]]

\* totalSimilarity over the group's members
RECURSIVE TotalSimilarity(_, _, _, _)
TotalSimilarity(matrix, groupIndices, k, j) ==
    IF k > Len(groupIndices) THEN Zero
    ELSE RatAdd(matrix[groupIndices[k]][j],
                TotalSimilarity(matrix, groupIndices, k + 1, j))

\* Faulty variant: the similarity to the photo that joined last.
avgSimilarityToLast(matrix, groupIndices, j) ==
    matrix[groupIndices[Len(groupIndices)]][j]

\* Faulty variant: the similarity to the seed alone.
avgSimilarityToSeed(matrix, groupIndices, j) == matrix[groupIndices[1]][j]

avgSimilarity(matrix, groupIndices, j) ==
    RatDivInt(TotalSimilarity(matrix, groupIndices, 1, j), Len(groupIndices))

\* Faulty variant: the comparison turned round (avgSimilarity <= similarityThreshold).
AdvancedAcceptsBelow(avg, threshold) == RatGeq(threshold, avg)

\* Faulty variant: an average exactly at the threshold is refused.
AdvancedAcceptsAbove(avg, threshold) == RatGt(avg, threshold)

\* avgSimilarity >= similarityThreshold
AdvancedAccepts(avg, threshold) == RatGeq(avg, threshold)

RECURSIVE AdvancedScan(_, _, _, _, _, _)
AdvancedScan(matrix, n, j, groupIndices, assigned, threshold) ==
    IF j > n THEN [groupIndices |-> groupIndices, assigned |-> assigned]
    ELSE IF j \in assigned
         THEN AdvancedScan(matrix, n, j + 1, groupIndices, assigned, threshold)
    ELSE IF AdvancedAccepts(avgSimilarity(matrix, groupIndices, j), threshold)
         THEN AdvancedScan(matrix, n, j + 1, Append(groupIndices, j),
                           assigned \cup {j}, threshold)
         ELSE AdvancedScan(matrix, n, j + 1, groupIndices, assigned, threshold)

\* sum over the pairs (i, j), i < j, of the group; pairCount is their number
RECURSIVE PairTotal(_, _, _, _)
PairTotal(matrix, groupIndices, i, j) ==
    IF i > Len(groupIndices) THEN Zero
    ELSE IF j > Len(groupIndices) THEN PairTotal(matrix, groupIndices, i + 1, i + 2)
    ELSE RatAdd(matrix[groupIndices[i]][groupIndices[j]],
                PairTotal(matrix, groupIndices, i, j + 1))

\* Faulty variant: the total of the pairwise similarities, not divided by pairCount.
calculateGroupConfidenceTotal(groupIndices, matrix) ==
    IF Len(groupIndices) = 1 THEN Conf05
    ELSE PairTotal(matrix, groupIndices, 1, 2)

\* Faulty variant: the total is divided by the number of members, not of pairs.
calculateGroupConfidencePerMember(groupIndices, matrix) ==
    IF Len(groupIndices) = 1 THEN Conf05
    ELSE RatDivInt(PairTotal(matrix, groupIndices, 1, 2), Len(groupIndices))

calculateGroupConfidence(groupIndices, matrix) ==
    IF Len(groupIndices) = 1 THEN Conf05
    ELSE LET n == Len(groupIndices)
             pairCount == (n * (n - 1)) \div 2
         IN  IF pairCount > 0
             THEN RatDivInt(PairTotal(matrix, groupIndices, 1, 2), pairCount)
             ELSE Conf05

RECURSIVE AdvancedLoop(_, _, _, _, _, _)
AdvancedLoop(hs, matrix, i, gs, assigned, threshold) ==
    IF i > Len(hs) THEN gs
    ELSE IF i \in assigned
         THEN AdvancedLoop(hs, matrix, i + 1, gs, assigned, threshold)
    ELSE LET r == AdvancedScan(matrix, Len(hs), i + 1, <<i>>, assigned \cup {i}, threshold)
             groupPaths == [k \in 1 .. Len(r.groupIndices) |-> hs[r.groupIndices[k]].path]
             g == PhotoGroup(ItemId(Len(gs) + 1), groupPaths, groupPaths[1],
                             calculateGroupConfidence(r.groupIndices, matrix))
         IN  AdvancedLoop(hs, matrix, i + 1, Append(gs, g), r.assigned, threshold)

\* the part of groupPhotosByItemAdvanced after the hashes are in
AdvancedGroups(hs, threshold) ==
    AdvancedLoop(hs, similarityMatrix(hs), 1, <<>>, {}, threshold)

ClusterGroups(strat, hs, threshold) ==
    IF strat = "greedy" THEN GreedyGroups(hs, threshold)
    ELSE AdvancedGroups(hs, threshold)

----------------------------------------------------------------------------
(* Corrections: mergeGroups and splitPhotoFromGroup *)

\* Faulty variant: Math.max where the code has Math.min.
mergeGroupsMax(group1, group2) ==
    PhotoGroup(group1.id, group1.photos \o group2.photos, group1.primaryPhoto,
               RatMul(IF RatGeq(group1.confidence, group2.confidence)
                      THEN group1.confidence ELSE group2.confidence, Factor09))

\* Faulty variant: the second group's photos are spread first.
mergeGroupsSwapped(group1, group2) ==
    PhotoGroup(group1.id, group2.photos \o group1.photos, group1.primaryPhoto,
               RatMul(RatMin(group1.confidence, group2.confidence), Factor09))

mergeGroups(group1, group2) ==
    PhotoGroup(group1.id,
               group1.photos \o group2.photos,
               group1.primaryPhoto,
               RatMul(RatMin(group1.confidence, group2.confidence), Factor09))

\* group.photos.filter(p => p !== photoPath)
\* Faulty variant: the filter keeps the photo instead of dropping it.
FilterKeep(photos, photoPath) == SelectSeq(photos, LAMBDA p : p = photoPath)

FilterOut(photos, photoPath) == SelectSeq(photos, LAMBDA p : p # photoPath)

\* Faulty variant: primaryPhoto is replaced only when it is the photo removed.
splitPhotoFromGroupKeepPrimary(group, photoPath) ==
    LET updatedPhotos == FilterOut(group.photos, photoPath)
        updatedGroup == PhotoGroup(group.id, updatedPhotos,
                   IF updatedPhotos # <<>> /\ group.primaryPhoto = photoPath
                   THEN updatedPhotos[1] ELSE group.primaryPhoto,
                   RatMul(group.confidence, Factor09))
        newGroup == PhotoGroup(SplitId(group.id), <<photoPath>>, photoPath, Conf05)
    IN  [updatedGroup |-> updatedGroup, newGroup |-> newGroup]

splitPhotoFromGroup(group, photoPath) ==
    LET updatedPhotos == FilterOut(group.photos, photoPath)
        updatedGroup ==
            PhotoGroup(group.id,
                       updatedPhotos,
                       \* updatedPhotos[0] || group.primaryPhoto
                       IF updatedPhotos # <<>> THEN updatedPhotos[1]
                       ELSE group.primaryPhoto,
                       RatMul(group.confidence, Factor09))
        newGroup == PhotoGroup(SplitId(group.id), <<photoPath>>, photoPath, Conf05)
    IN  [updatedGroup |-> updatedGroup, newGroup |-> newGroup]

\* The caller's side of a merge: both groups leave the GroupSet and the
\* merged group takes the place of the first.
RemoveAt(gs, k) == [x \in 1 .. (Len(gs) - 1) |-> IF x < k THEN gs[x] ELSE gs[x + 1]]

ReplaceMerged(gs, i, j, merged) == RemoveAt([gs EXCEPT ![i] = merged], j)

\* The caller's side of a split: updatedGroup takes the group's place and
\* newGroup is added to the GroupSet.
ReplaceSplit(gs, i, r) == Append([gs EXCEPT ![i] = r.updatedGroup], r.newGroup)

NoCall == [fn |-> "none", args |-> <<>>, photoPath |-> 0,
           outcome |-> "none", result |-> <<>>]

----------------------------------------------------------------------------
(* The grouping call, step by step: Promise.all over the fingerprint tasks *)

Strategies == {"greedy", "advanced"}

Thresholds == {[n |-> k, d |-> ThreshDen] : k \in (-1) .. (ThreshDen + 1)}

SeqsUpTo(S, n) == UNION {[1 .. k -> S] : k \in 0 .. n}

Distinct(seq) == \A a, b \in 1 .. Len(seq) : a # b => seq[a] # seq[b]

Range(seq) == {seq[k] : k \in 1 .. Len(seq)}

\* Faulty variant: values are kept in the order in which the promises resolve.
CollectInCompletionOrder(results, k, value) ==
    LET free == CHOOSE x \in 1 .. Len(results) :
                    /\ results[x] = Pending
                    /\ \A y \in 1 .. (x - 1) : results[y] # Pending
    IN  [results EXCEPT ![free] = value]

\* Promise.all keeps the value of the k-th promise at index k.
Collect(results, k, value) == [results EXCEPT ![k] = value]

Settled(results) == \A k \in 1 .. Len(results) : results[k] # Pending

InitCall(paths) ==
    /\ photoPaths \in paths
    /\ similarityThreshold \in Thresholds
    /\ strategy \in Strategies
    /\ pc = "called"
    /\ photoHashes = <<>>
    /\ groups = <<>>
    /\ lastCall = NoCall
    /\ corrections = 0
    /\ heap = <<>>

\* Faulty variant: no early return, an empty batch goes on to Promise.all.
CallNoEmptyCheck ==
    /\ pc = "called"
    /\ pc' = "await"
    /\ photoHashes' = [k \in 1 .. Len(photoPaths) |-> Pending]
    /\ groups' = <<>>
    /\ UNCHANGED <<photoPaths, similarityThreshold, strategy, lastCall, corrections, heap>>

\* Entry of groupPhotosByItem / groupPhotosByItemAdvanced up to the await.
Call ==
    /\ pc = "called"
    /\ IF Len(photoPaths) = 0
       THEN /\ pc' = "returned"
            /\ photoHashes' = <<>>
       ELSE /\ pc' = "await"
            /\ photoHashes' = [k \in 1 .. Len(photoPaths) |-> Pending]
    /\ groups' = <<>>
    /\ UNCHANGED <<photoPaths, similarityThreshold, strategy, lastCall, corrections, heap>>

\* The k-th fingerprint task resolves.
Resolve(k) ==
    /\ pc = "await"
    /\ photoHashes[k] = Pending
    /\ Readable(photoPaths[k])
    /\ photoHashes' = Collect(photoHashes, k,
                              PhotoHash(photoPaths[k], HashOnDisk[photoPaths[k]]))
    /\ UNCHANGED <<photoPaths, similarityThreshold, strategy, pc, groups,
                   lastCall, corrections, heap>>

\* The k-th fingerprint task rejects (sharp cannot read the file): Promise.all
\* rejects with it and the async function rejects in turn.
Reject(k) ==
    /\ pc = "await"
    /\ photoHashes[k] = Pending
    /\ ~Readable(photoPaths[k])
    /\ pc' = "rejected"
    /\ UNCHANGED <<photoPaths, similarityThreshold, strategy, photoHashes, groups,
                   lastCall, corrections, heap>>

\* Promise.all has resolved: the clustering pass runs to the return.
Resume ==
    /\ pc = "await"
    /\ Settled(photoHashes)
    /\ groups' = ClusterGroups(strategy, photoHashes, similarityThreshold)
    /\ pc' = "returned"
    /\ UNCHANGED <<photoPaths, similarityThreshold, strategy, photoHashes,
                   lastCall, corrections, heap>>

\* The batches of the step-by-step call: up to MaxBatch photos, repeats
\* allowed, among MaxBatch readable files and the unreadable one.
BatchPaths == (1 .. MaxBatch) \cup {UnreadablePath}

Init == InitCall(SeqsUpTo(BatchPaths, MaxBatch))

Next ==
    \/ Call
    \/ \E k \in 1 .. Len(photoPaths) : Resolve(k)
    \/ \E k \in 1 .. Len(photoPaths) : Reject(k)
    \/ Resume

Spec == Init /\ [][Next]_vars

----------------------------------------------------------------------------
(* The grouping call as a function of its arguments, all files readable *)

HashesInOrder(paths) == [k \in 1 .. Len(paths) |-> PhotoHash(paths[k], HashOnDisk[paths[k]])]

groupPhotosByItem(paths, threshold) ==
    IF Len(paths) = 0 THEN <<>>
    ELSE GreedyGroups(HashesInOrder(paths), threshold)

groupPhotosByItemAdvanced(paths, threshold) ==
    IF Len(paths) = 0 THEN <<>>
    ELSE AdvancedGroups(HashesInOrder(paths), threshold)

GroupPhotosByItem ==
    /\ pc = "called"
    /\ strategy = "greedy"
    /\ photoHashes' = HashesInOrder(photoPaths)
    /\ groups' = groupPhotosByItem(photoPaths, similarityThreshold)
    /\ pc' = "returned"
    /\ UNCHANGED <<photoPaths, similarityThreshold, strategy, lastCall, corrections, heap>>

GroupPhotosByItemAdvanced ==
    /\ pc = "called"
    /\ strategy = "advanced"
    /\ photoHashes' = HashesInOrder(photoPaths)
    /\ groups' = groupPhotosByItemAdvanced(photoPaths, similarityThreshold)
    /\ pc' = "returned"
    /\ UNCHANGED <<photoPaths, similarityThreshold, strategy, lastCall, corrections, heap>>

InitCluster == InitCall(SeqsUpTo(Paths, MaxPhotos))

NextCluster == GroupPhotosByItem \/ GroupPhotosByItemAdvanced

SpecCluster == InitCluster /\ [][NextCluster]_vars

\* groupPhotosByItem alone, on the same inputs.
InitGreedy == InitCluster /\ strategy = "greedy"

SpecGreedy == InitGreedy /\ [][GroupPhotosByItem]_vars

\* groupPhotosByItemAdvanced alone, on the same inputs.
InitAdvanced == InitCluster /\ strategy = "advanced"

SpecAdvanced == InitAdvanced /\ [][GroupPhotosByItemAdvanced]_vars

----------------------------------------------------------------------------
(* The GroupSet under corrections, one at a time *)

\* The photoPath arguments tried: the batch's paths and one path outside it.
CorrectionPaths == 1 .. (MaxBatch + 1)

\* The GroupSet starts as the result of clustering a batch of distinct
\* paths <<1, ..., n>>, under any threshold and either strategy.
InitCorrect ==
    /\ photoPaths \in {[k \in 1 .. n |-> k] : n \in 1 .. MaxBatch}
    /\ similarityThreshold \in Thresholds
    /\ strategy \in Strategies
    /\ pc = "returned"
    /\ photoHashes = HashesInOrder(photoPaths)
    /\ groups = ClusterGroups(strategy, photoHashes, similarityThreshold)
    /\ lastCall = NoCall
    /\ corrections = 0
    /\ heap = <<>>

MergeGroups(i, j) ==
    /\ pc = "returned"
    /\ corrections < MaxCorrections
    /\ i # j
    /\ LET merged == mergeGroups(groups[i], groups[j])
       IN  /\ groups' = ReplaceMerged(groups, i, j, merged)
           /\ lastCall' = [fn |-> "mergeGroups", args |-> <<groups[i], groups[j]>>,
                           photoPath |-> 0, outcome |-> "returned",
                           result |-> <<merged>>]
    /\ corrections' = corrections + 1
    /\ UNCHANGED heap
    /\ UNCHANGED <<photoPaths, similarityThreshold, strategy, pc, photoHashes>>

SplitPhotoFromGroup(i, photoPath) ==
    /\ pc = "returned"
    /\ corrections < MaxCorrections
    /\ LET r == splitPhotoFromGroup(groups[i], photoPath)
       IN  /\ groups' = ReplaceSplit(groups, i, r)
           /\ lastCall' = [fn |-> "splitPhotoFromGroup", args |-> <<groups[i]>>,
                           photoPath |-> photoPath, outcome |-> "returned",
                           result |-> <<r.updatedGroup, r.newGroup>>]
    /\ corrections' = corrections + 1
    /\ UNCHANGED heap
    /\ UNCHANGED <<photoPaths, similarityThreshold, strategy, pc, photoHashes>>

NextCorrect ==
    \/ \E i, j \in 1 .. Len(groups) : MergeGroups(i, j)
    \/ \E i \in 1 .. Len(groups), p \in CorrectionPaths : SplitPhotoFromGroup(i, p)

SpecCorrect == InitCorrect /\ [][NextCorrect]_vars

----------------------------------------------------------------------------
(* Direct calls of the exported functions, on arguments the caller builds *)

MaxGroupPhotos == 2

ArgPaths == 1 .. (MaxGroupPhotos + 1)

\* Confidences a caller may write into a PhotoGroup literal; one lies
\* outside [0, 1].
ArgConfidences == {Rat(-1, 2), Zero, Conf05, Conf085}

\* PhotoGroup literals: any photo list, any primaryPhoto, any confidence.
ArgGroups(id, maxLen) ==
    {PhotoGroup(id, ps, pp, c) :
        ps \in SeqsUpTo(ArgPaths, maxLen), pp \in ArgPaths, c \in ArgConfidences}

\* Second arguments of mergeGroups: their primaryPhoto heads their photos.
SecondArgGroups(id) ==
    {g \in ArgGroups(id, MaxGroupPhotos) :
        g.primaryPhoto = IF g.photos # <<>> THEN g.photos[1] ELSE 1}

InitFn ==
    /\ photoPaths = <<>>
    /\ similarityThreshold = Zero
    /\ strategy = "none"
    /\ pc = "idle"
    /\ photoHashes = <<>>
    /\ groups = <<>>
    /\ lastCall = NoCall
    /\ corrections = 0
    /\ heap = <<>>

Returned(fn, args, photoPath, result) ==
    [fn |-> fn, args |-> args, photoPath |-> photoPath,
     outcome |-> "returned", result |-> result]

CallMergeGroups(group1, group2) ==
    /\ lastCall = NoCall
    /\ lastCall' = Returned("mergeGroups", <<group1, group2>>, 0,
                            <<mergeGroups(group1, group2)>>)
    /\ UNCHANGED <<photoPaths, similarityThreshold, strategy, pc, photoHashes,
                   groups, corrections, heap>>

\* Groups handed to splitPhotoFromGroup: ids of both forms, one photo more
\* than a merge argument so that a photo can be taken from the middle.
SplitArgGroups ==
    ArgGroups(ItemId(1), MaxGroupPhotos + 1)
        \cup ArgGroups(SplitId(ItemId(1)), MaxGroupPhotos + 1)

CallSplitPhotoFromGroup(group, photoPath) ==
    /\ lastCall = NoCall
    /\ lastCall' = LET r == splitPhotoFromGroup(group, photoPath)
                   IN  Returned("splitPhotoFromGroup", <<group>>, photoPath,
                                <<r.updatedGroup, r.newGroup>>)
    /\ UNCHANGED <<photoPaths, similarityThreshold, strategy, pc, photoHashes,
                   groups, corrections, heap>>

MaxBits == 3

\* Binary strings of up to MaxBits characters, the empty one included.
BitStrings == SeqsUpTo({0, 1}, MaxBits)

Threw(fn, args, message) ==
    [fn |-> fn, args |-> args, photoPath |-> 0, outcome |-> message, result |-> <<>>]

CallCalculateHammingDistance(hash1, hash2) ==
    /\ lastCall = NoCall
    /\ lastCall' = LET distance == calculateHammingDistance(hash1, hash2)
                   IN  IF distance = LengthMismatch
                       THEN Threw("calculateHammingDistance", <<hash1, hash2>>,
                                  "Hashes must be the same length")
                       ELSE Returned("calculateHammingDistance", <<hash1, hash2>>, 0,
                                     <<distance>>)
    /\ UNCHANGED <<photoPaths, similarityThreshold, strategy, pc, photoHashes,
                   groups, corrections, heap>>

CallCalculateSimilarity(hash1, hash2) ==
    /\ lastCall = NoCall
    /\ lastCall' = IF calculateHammingDistance(hash1, hash2) = LengthMismatch
                   THEN Threw("calculateSimilarity", <<hash1, hash2>>,
                              "Hashes must be the same length")
                   ELSE Returned("calculateSimilarity", <<hash1, hash2>>, 0,
                                 <<calculateSimilarity(hash1, hash2)>>)
    /\ UNCHANGED <<photoPaths, similarityThreshold, strategy, pc, photoHashes,
                   groups, corrections, heap>>

MaxPixel == 1

\* One row of a decoded grid: HashCols + 1 gray levels.
PixelRows == [0 .. HashCols -> 0 .. MaxPixel]

\* The buffer of a file whose even rows decode to rowA and odd rows to rowB.
GridOf(rowA, rowB) ==
    [k \in 1 .. (HashRows * (HashCols + 1)) |->
        LET row == (k - 1) \div (HashCols + 1)
            col == (k - 1) % (HashCols + 1)
        IN  IF row % 2 = 0 THEN rowA[col] ELSE rowB[col]]

\* generatePhotoHash on a file that decodes to data.
CallGeneratePhotoHash(data) ==
    /\ lastCall = NoCall
    /\ lastCall' = Returned("generatePhotoHash", <<data>>, 0, <<differenceHash(data)>>)
    /\ UNCHANGED <<photoPaths, similarityThreshold, strategy, pc, photoHashes,
                   groups, corrections, heap>>

\* One call per behaviour: nothing is enabled once a call has been made.
NextFn ==
    \/ /\ lastCall = NoCall
       /\ \E group1 \in ArgGroups(ItemId(1), MaxGroupPhotos),
             group2 \in SecondArgGroups(ItemId(2)) :
             CallMergeGroups(group1, group2)
    \/ /\ lastCall = NoCall
       /\ \E group \in SplitArgGroups, photoPath \in ArgPaths :
             CallSplitPhotoFromGroup(group, photoPath)
    \/ /\ lastCall = NoCall
       /\ \E hash1, hash2 \in BitStrings : CallCalculateHammingDistance(hash1, hash2)
    \/ /\ lastCall = NoCall
       /\ \E hash1, hash2 \in BitStrings : CallCalculateSimilarity(hash1, hash2)
    \/ /\ lastCall = NoCall
       /\ \E rowA, rowB \in PixelRows : CallGeneratePhotoHash(GridOf(rowA, rowB))

SpecFn == InitFn /\ [][NextFn]_vars

----------------------------------------------------------------------------
(* The corrections on objects and arrays held by reference                  *)
(*                                                                          *)
(* A cell of the heap is an array, [items |-> its elements], or a group     *)
(* object whose photos field is the address of an array.  An array literal, *)
(* a spread into a literal, filter() and an object literal each allocate a  *)
(* new cell; nothing in the two functions assigns to a field or an element. *)

ArrayCell(items) == [items |-> items]

\* The PhotoGroup value held by the object at address a.
Deref(h, a) == [h[a] EXCEPT !.photos = h[h[a].photos].items]

GroupAddrs(h) == {a \in DOMAIN h : "id" \in DOMAIN h[a]}

\* Faulty variant: group2's photos are pushed onto group1's own array and
\* group1 itself is updated and returned.
mergeGroupsInPlace(h, a1, a2) ==
    LET merged == mergeGroups(Deref(h, a1), Deref(h, a2))
    IN  [heap |-> [h EXCEPT ![h[a1].photos] = ArrayCell(merged.photos),
                            ![a1].confidence = merged.confidence],
         result |-> <<a1>>]

mergeGroupsOnHeap(h, a1, a2) ==
    LET merged == mergeGroups(Deref(h, a1), Deref(h, a2))
        \* [...group1.photos, ...group2.photos]
        h1 == Append(h, ArrayCell(merged.photos))
        \* the returned object literal
        h2 == Append(h1, [merged EXCEPT !.photos = Len(h1)])
    IN  [heap |-> h2, result |-> <<Len(h2)>>]

splitPhotoFromGroupOnHeap(h, a, photoPath) ==
    LET r == splitPhotoFromGroup(Deref(h, a), photoPath)
        \* group.photos.filter(...)
        h1 == Append(h, ArrayCell(r.updatedGroup.photos))
        \* { ...group, photos: updatedPhotos, ... }
        h2 == Append(h1, [r.updatedGroup EXCEPT !.photos = Len(h1)])
        \* [photoPath]
        h3 == Append(h2, ArrayCell(r.newGroup.photos))
        h4 == Append(h3, [r.newGroup EXCEPT !.photos = Len(h3)])
    IN  [heap |-> h4, result |-> <<Len(h2), Len(h4)>>]

HeapConfidences == {Conf05, Conf085}

\* Two group objects built by the caller, each over its own array or both
\* over one array.
CallerHeaps ==
    LET Lists == SeqsUpTo(ArgPaths, MaxGroupPhotos)
        Obj(k, photos, ps, c) ==
            PhotoGroup(ItemId(k), photos, IF ps # <<>> THEN ps[1] ELSE 1, c)
    IN  {<<ArrayCell(ps1), Obj(1, 1, ps1, c1), ArrayCell(ps2), Obj(2, 3, ps2, c2)>> :
            ps1 \in Lists, ps2 \in Lists, c1 \in HeapConfidences, c2 \in HeapConfidences}
        \cup
        {<<ArrayCell(ps), Obj(1, 1, ps, c1), Obj(2, 1, ps, c2)>> :
            ps \in Lists, c1 \in HeapConfidences, c2 \in HeapConfidences}

InitHeap ==
    /\ photoPaths = <<>>
    /\ similarityThreshold = Zero
    /\ strategy = "none"
    /\ pc = "idle"
    /\ photoHashes = <<>>
    /\ groups = <<>>
    /\ lastCall = NoCall
    /\ corrections = 0
    /\ heap \in CallerHeaps

MergeOnHeap(a1, a2) ==
    /\ lastCall = NoCall
    /\ LET r == mergeGroupsOnHeap(heap, a1, a2)
       IN  /\ heap' = r.heap
           /\ lastCall' = Returned("mergeGroups", <<a1, a2>>, 0, r.result)
    /\ UNCHANGED <<photoPaths, similarityThreshold, strategy, pc, photoHashes,
                   groups, corrections>>

SplitOnHeap(a, photoPath) ==
    /\ lastCall = NoCall
    /\ LET r == splitPhotoFromGroupOnHeap(heap, a, photoPath)
       IN  /\ heap' = r.heap
           /\ lastCall' = Returned("splitPhotoFromGroup", <<a>>, photoPath, r.result)
    /\ UNCHANGED <<photoPaths, similarityThreshold, strategy, pc, photoHashes,
                   groups, corrections>>

NextHeap ==
    \/ \E a1, a2 \in GroupAddrs(heap) : MergeOnHeap(a1, a2)
    \/ \E a \in GroupAddrs(heap), photoPath \in ArgPaths : SplitOnHeap(a, photoPath)

SpecHeap == InitHeap /\ [][NextHeap]_vars

----------------------------------------------------------------------------
(* Properties *)

\* The groups of gs whose photos contain path p.
GroupsHolding(gs, p) == {g \in 1 .. Len(gs) : p \in Range(gs[g].photos)}

AllPhotos(gs) == UNION {Range(gs[g].photos) : g \in 1 .. Len(gs)}

Partitions(gs, paths) ==
    /\ \A p \in paths : Cardinality(GroupsHolding(gs, p)) = 1
    /\ AllPhotos(gs) = paths

InUnitRange(r) == RatGeq(r, Zero) /\ RatGeq(One, r)

GroupCount(strat, paths, threshold) ==
    IF strat = "greedy" THEN Len(groupPhotosByItem(paths, threshold))
    ELSE Len(groupPhotosByItemAdvanced(paths, threshold))

\* The group count never drops when the threshold is raised to the call's.
MonotoneUpTo(strat) ==
    \A t1 \in Thresholds :
        RatGeq(similarityThreshold, t1) =>
            Len(groups) >= GroupCount(strat, photoPaths, t1)

\* C1 as stated: for ANY non-empty input (repeated paths included), every
\* input path is in exactly one returned group and the groups' photos
\* together are the input set.  Stated on the thresholds within [0,1], so
\* that the absent range check on the threshold plays no part.
C1_PartitionAnyInput ==
    (pc = "returned" /\ photoPaths # <<>> /\ InUnitRange(similarityThreshold)) =>
        Partitions(groups, Range(photoPaths))

\* C1 amended: for any non-empty input of pairwise distinct paths and any
\* threshold, under either strategy, every input path is in exactly one
\* returned group and the groups' photos together are the input set.
C1_PartitionDistinct ==
    (pc = "returned" /\ photoPaths # <<>> /\ Distinct(photoPaths)) =>
        Partitions(groups, Range(photoPaths))

C1_Witness ==
    /\ pc = "returned"
    /\ strategy = "advanced"
    /\ Distinct(photoPaths)
    /\ Len(photoPaths) >= 4
    /\ Len(groups) >= 2
    /\ \E g \in 1 .. Len(groups) : Len(groups[g].photos) >= 2

\* C2 as stated: the greedy strategy's group count is monotone in the
\* threshold for every input.
C2_GreedyMonotone ==
    (pc = "returned" /\ strategy = "greedy") => MonotoneUpTo("greedy")

\* C2 amended: for every input of at most three photos, the number of
\* groups groupPhotosByItem returns never drops when the threshold is raised.
C2_GreedyMonotoneUpTo3 ==
    (pc = "returned" /\ strategy = "greedy" /\ Len(photoPaths) <= 3) =>
        MonotoneUpTo("greedy")

C2_Witness ==
    /\ pc = "returned"
    /\ strategy = "greedy"
    /\ Len(photoPaths) = 3
    /\ \E t1 \in Thresholds :
          /\ RatGt(similarityThreshold, t1)
          /\ Len(groups) > GroupCount("greedy", photoPaths, t1)

\* C3 as stated: the average-linkage strategy's group count is monotone in
\* the threshold for every input.
C3_AdvancedMonotone ==
    (pc = "returned" /\ strategy = "advanced") => MonotoneUpTo("advanced")

\* C3 amended: for every input of at most three photos, the number of
\* groups groupPhotosByItemAdvanced returns never drops when the threshold
\* is raised.
C3_AdvancedMonotoneUpTo3 ==
    (pc = "returned" /\ strategy = "advanced" /\ Len(photoPaths) <= 3) =>
        MonotoneUpTo("advanced")

C3_Witness ==
    /\ pc = "returned"
    /\ strategy = "advanced"
    /\ Len(photoPaths) = 3
    /\ \E t1 \in Thresholds :
          /\ RatGt(similarityThreshold, t1)
          /\ Len(groups) > GroupCount("advanced", photoPaths, t1)

GroupWellFormed(g) ==
    /\ g.photos # <<>>
    /\ Distinct(g.photos)
    /\ g.primaryPhoto = g.photos[1]

\* C7 as stated: every group returned for an input of distinct paths has
\* non-empty photos without duplicates, primaryPhoto = photos[0], and a
\* confidence greater than 0 and at most 1.  Stated on the thresholds
\* within [0,1].
C7_GroupShapePositive ==
    (pc = "returned" /\ Distinct(photoPaths) /\ InUnitRange(similarityThreshold)) =>
        \A g \in 1 .. Len(groups) :
            /\ GroupWellFormed(groups[g])
            /\ RatGt(groups[g].confidence, Zero)
            /\ RatGeq(One, groups[g].confidence)

\* C7 amended: every group returned for an input of distinct paths has
\* non-empty photos without duplicates, primaryPhoto = photos[0], and a
\* confidence of at least 0 and at most 1; the confidence is greater than 0
\* under groupPhotosByItem, and under groupPhotosByItemAdvanced whenever the
\* threshold is greater than 0.
C7_GroupShape ==
    (pc = "returned" /\ Distinct(photoPaths)) =>
        \A g \in 1 .. Len(groups) :
            /\ GroupWellFormed(groups[g])
            /\ InUnitRange(groups[g].confidence)
            /\ (strategy = "greedy" \/ RatGt(similarityThreshold, Zero)) =>
                   RatGt(groups[g].confidence, Zero)

C7_Witness ==
    /\ pc = "returned"
    /\ strategy = "advanced"
    /\ Distinct(photoPaths)
    /\ similarityThreshold.n = 0
    /\ \E g \in 1 .. Len(groups) :
          /\ Len(groups[g].photos) >= 2
          /\ groups[g].confidence = Zero

\* C8: a threshold outside [0,1] is rejected with an invalid-argument error
\* and no groups are produced.  Stated on the non-empty inputs, where the
\* threshold reaches the comparison.
C8_ThresholdRejected ==
    (pc # "called" /\ photoPaths # <<>> /\ ~InUnitRange(similarityThreshold)) =>
        (pc = "rejected" /\ groups = <<>>)

\* C9: a photo whose fingerprinting fails is left out; the call is not
\* aborted and returns groups that partition the remaining photos.  Stated
\* on the thresholds within [0,1] and the batches with a readable photo.
C9_FailureNotFatal ==
    (/\ InUnitRange(similarityThreshold)
     /\ Distinct(photoPaths)
     /\ \E p \in Range(photoPaths) : Readable(p)) =>
        /\ pc # "rejected"
        /\ pc = "returned" =>
              Partitions(groups, {p \in Range(photoPaths) : Readable(p)})

\* C10: whatever the order in which the fingerprint tasks complete, slot k
\* holds the fingerprint of photoPaths[k], and the groups returned
\* (membership, order, ids) are those of the input order.
C10_InputOrderKept ==
    /\ pc \in {"await", "returned"} =>
          \A k \in 1 .. Len(photoHashes) :
              photoHashes[k] # Pending =>
                  photoHashes[k] = PhotoHash(photoPaths[k],
                                             generatePhotoHash(photoPaths[k]))
    /\ pc = "returned" =>
          groups = IF strategy = "greedy"
                   THEN groupPhotosByItem(photoPaths, similarityThreshold)
                   ELSE groupPhotosByItemAdvanced(photoPaths, similarityThreshold)

\* A later task has completed while the first is still running.
C10_Witness ==
    /\ pc = "await"
    /\ Len(photoPaths) >= 3
    /\ photoHashes[1] = Pending
    /\ photoHashes[2] = Pending
    /\ photoHashes[3] # Pending
    /\ photoPaths[1] # photoPaths[3]

\* C4: under any sequence of corrections every input path stays in exactly
\* one group of the GroupSet.  Stated on the GroupSets clustered with a
\* threshold within [0,1], as are C5 and C6.
C4_PartitionUnderCorrections ==
    InUnitRange(similarityThreshold) =>
    \A p \in Range(photoPaths) : Cardinality(GroupsHolding(groups, p)) = 1

\* C5: splitPhotoFromGroup with a path that is not in the group fails with
\* NotFound and returns no updatedGroup / newGroup pair.
C5_SplitNotFound ==
    (/\ InUnitRange(similarityThreshold)
     /\ lastCall.fn = "splitPhotoFromGroup"
     /\ lastCall.photoPath \notin Range(lastCall.args[1].photos)) =>
        (lastCall.outcome = "NotFound" /\ lastCall.result = <<>>)

\* C6: every group of the GroupSet, after any corrections, has non-empty
\* photos without duplicates and primaryPhoto = photos[0].
C6_GroupInvariant ==
    InUnitRange(similarityThreshold) =>
    \A g \in 1 .. Len(groups) : GroupWellFormed(groups[g])

\* C11: mergeGroups(group1, group2) returns a group whose photos are
\* group1's photos followed by group2's photos, every one at its place and
\* the length the sum of the two, and whose id and primaryPhoto are group1's.
C11_MergeConcatenates ==
    lastCall.fn = "mergeGroups" /\ lastCall.outcome = "returned" =>
        LET group1 == lastCall.args[1]
            group2 == lastCall.args[2]
            merged == lastCall.result[1]
            n1 == Len(group1.photos)
        IN  /\ Len(merged.photos) = n1 + Len(group2.photos)
            /\ \A k \in 1 .. n1 : merged.photos[k] = group1.photos[k]
            /\ \A k \in 1 .. Len(group2.photos) : merged.photos[n1 + k] = group2.photos[k]
            /\ merged.id = group1.id
            /\ merged.primaryPhoto = group1.primaryPhoto

\* Two groups of two photos each, in different orders, have been merged.
C11_Witness ==
    /\ lastCall.fn = "mergeGroups"
    /\ lastCall.args[1].photos = <<1, 2>>
    /\ lastCall.args[2].photos = <<3, 1>>
    /\ lastCall.args[1].primaryPhoto = 1
    /\ lastCall.result[1].photos = <<1, 2, 3, 1>>

\* C12: the confidence of mergeGroups(group1, group2) is the lesser of the
\* two input confidences times 9/10, and when both inputs lie in [0, 1] it
\* is at most each of them.
C12_MergedConfidence ==
    lastCall.fn = "mergeGroups" /\ lastCall.outcome = "returned" =>
        LET c1 == lastCall.args[1].confidence
            c2 == lastCall.args[2].confidence
            c == lastCall.result[1].confidence
            lesser == IF c1.n * c2.d <= c2.n * c1.d THEN c1 ELSE c2
        IN  /\ c.n * 10 * lesser.d = 9 * lesser.n * c.d
            /\ (InUnitRange(c1) /\ InUnitRange(c2)) =>
                   /\ c.n * c1.d <= c1.n * c.d
                   /\ c.n * c2.d <= c2.n * c.d

\* A group of confidence 0.85 has been merged with one of confidence 0.5,
\* the lesser being the second argument's: the result has 0.45.
C12_Witness ==
    /\ lastCall.fn = "mergeGroups"
    /\ lastCall.args[1].confidence = [n |-> 17, d |-> 20]
    /\ lastCall.args[2].confidence = [n |-> 1, d |-> 2]
    /\ lastCall.result[1].confidence = [n |-> 9, d |-> 20]

\* C13: splitPhotoFromGroup(group, photoPath) with photoPath among
\* group.photos returns a newGroup holding exactly that photo, with it as
\* primaryPhoto, the id of group followed by "-split" and confidence 1/2,
\* and an updatedGroup whose photos are group's photos other than photoPath
\* in their original order; the photos of the two together are group's.
C13_SplitShape ==
    /\ lastCall.fn = "splitPhotoFromGroup"
    /\ lastCall.outcome = "returned"
    /\ lastCall.photoPath \in Range(lastCall.args[1].photos)
    => LET group == lastCall.args[1]
           photoPath == lastCall.photoPath
           updatedGroup == lastCall.result[1]
           newGroup == lastCall.result[2]
           \* how many of the first i photos of group are kept
           kept(i) == Cardinality({j \in 1 .. i : group.photos[j] # photoPath})
       IN  /\ newGroup.photos = <<photoPath>>
           /\ newGroup.primaryPhoto = photoPath
           /\ Len(newGroup.id) = Len(group.id) + 1
           /\ newGroup.id[Len(newGroup.id)] = "split"
           /\ \A k \in 1 .. Len(group.id) : newGroup.id[k] = group.id[k]
           /\ newGroup.confidence.n * 2 = newGroup.confidence.d
           /\ Len(updatedGroup.photos) = kept(Len(group.photos))
           /\ \A i \in 1 .. Len(group.photos) :
                 group.photos[i] # photoPath
                     => updatedGroup.photos[kept(i)] = group.photos[i]
           /\ photoPath \notin Range(updatedGroup.photos)
           /\ Range(updatedGroup.photos) \cup Range(newGroup.photos)
                  = Range(group.photos)

\* The middle photo of a group of three has been split off.
C13_Witness ==
    /\ lastCall.fn = "splitPhotoFromGroup"
    /\ lastCall.args[1].photos = <<1, 2, 3>>
    /\ lastCall.photoPath = 2
    /\ lastCall.result[1].photos = <<1, 3>>
    /\ lastCall.result[2].photos = <<2>>

\* The call C14 is about: photoPath is among group.photos and at least one
\* photo remains.
SplitLeavesPhotos ==
    /\ lastCall.fn = "splitPhotoFromGroup"
    /\ lastCall.outcome = "returned"
    /\ lastCall.photoPath \in Range(lastCall.args[1].photos)
    /\ lastCall.result[1].photos # <<>>

C15_ArgumentsUntouched ==
    [][lastCall' # lastCall =>
          /\ \A a \in Range(lastCall'.args) :
                /\ a \in DOMAIN heap'
                /\ heap'[a] = heap[a]
                /\ heap'[heap[a].photos] = heap[heap[a].photos]
          /\ \A r \in Range(lastCall'.result) :
                /\ r \notin DOMAIN heap
                /\ heap'[r].photos \notin DOMAIN heap
                /\ \A a \in Range(lastCall'.args) : heap'[r].photos # heap[a].photos]_vars

\* A split has removed nothing: updatedGroup's photos equal the argument's,
\* element for element, and are held in another array.
C15_Witness ==
    /\ lastCall.fn = "splitPhotoFromGroup"
    /\ lastCall.photoPath \notin Range(Deref(heap, lastCall.args[1]).photos)
    /\ Len(Deref(heap, lastCall.args[1]).photos) = MaxGroupPhotos
    /\ Deref(heap, lastCall.result[1]).photos = Deref(heap, lastCall.args[1]).photos
    /\ heap[lastCall.result[1]].photos # heap[lastCall.args[1]].photos

\* C16: called with an empty list of paths, under either strategy and with
\* any threshold, the grouping call returns straight from its entry with no
\* groups: it never reaches the await and no fingerprint is computed.
C16_EmptyInput ==
    Len(photoPaths) = 0 /\ pc # "called" =>
        /\ pc = "returned"
        /\ groups = <<>>
        /\ photoHashes = <<>>

\* The average-linkage call has returned for an empty batch and a threshold
\* outside [0, 1].
C16_Witness ==
    /\ photoPaths = <<>>
    /\ strategy = "advanced"
    /\ ~InUnitRange(similarityThreshold)
    /\ pc = "returned"
    /\ groups = <<>>

\* C17: for a batch of one photo, under either strategy and with any
\* threshold, the call returns exactly one group: its photos are that one
\* photo, which is its primaryPhoto, and its confidence is exactly 1/2.
C17_SinglePhoto ==
    Len(photoPaths) = 1 /\ pc = "returned" =>
        /\ Len(groups) = 1
        /\ groups[1].photos = <<photoPaths[1]>>
        /\ groups[1].primaryPhoto = photoPaths[1]
        /\ groups[1].confidence.n * 2 = groups[1].confidence.d

\* The greedy call has returned the one group of a one-photo batch.
C17_Witness ==
    /\ photoPaths = <<3>>
    /\ strategy = "greedy"
    /\ pc = "returned"
    /\ Len(groups) = 1
    /\ groups[1].photos = <<3>>

\* Number of positions up to k at which a and b differ.
RECURSIVE Differing(_, _, _)
Differing(a, b, k) ==
    IF k = 0 THEN 0
    ELSE Differing(a, b, k - 1) + (IF a[k] # b[k] THEN 1 ELSE 0)

\* C18: for strings of equal length calculateHammingDistance returns the
\* number of positions at which they differ, 0 when they are equal; for
\* strings of different lengths it fails with "Hashes must be the same
\* length" and returns nothing.
C18_HammingDistance ==
    lastCall.fn = "calculateHammingDistance" =>
        LET a == lastCall.args[1]
            b == lastCall.args[2]
        IN  IF Len(a) = Len(b)
            THEN /\ lastCall.outcome = "returned"
                 /\ lastCall.result = <<Differing(a, b, Len(a))>>
                 /\ a = b => lastCall.result = <<0>>
            ELSE /\ lastCall.outcome = "Hashes must be the same length"
                 /\ lastCall.result = <<>>

\* A call on strings of lengths 3 and 2 that agree on their first two
\* characters has failed.
C18_Witness ==
    /\ lastCall.fn = "calculateHammingDistance"
    /\ lastCall.args = <<(<<1, 0, 1>>), (<<1, 0>>)>>
    /\ lastCall.outcome = "Hashes must be the same length"

\* C19: for fingerprints a and b of one length (fingerprints have at least
\* one bit) calculateSimilarity returns 1 - differing positions / length,
\* a value in [0, 1] that is 1 exactly when a = b and 0 exactly when a and b
\* differ at every position.
C19_Similarity ==
    /\ lastCall.fn = "calculateSimilarity"
    /\ Len(lastCall.args[1]) = Len(lastCall.args[2])
    /\ Len(lastCall.args[1]) > 0
    =>  /\ lastCall.outcome = "returned"
        /\ LET a == lastCall.args[1]
               b == lastCall.args[2]
               s == lastCall.result[1]
           IN  /\ s.d > 0
               /\ s.n * Len(a) = (Len(a) - Differing(a, b, Len(a))) * s.d
               /\ 0 <= s.n /\ s.n <= s.d
               /\ s.n = s.d <=> a = b
               /\ s.n = 0 <=> \A i \in 1 .. Len(a) : a[i] # b[i]

\* The similarity of a three-bit fingerprint and its complement is 0.
C19_Witness ==
    /\ lastCall.fn = "calculateSimilarity"
    /\ lastCall.args = <<(<<1, 0, 1>>), (<<0, 1, 0>>)>>
    /\ lastCall.outcome = "returned"
    /\ lastCall.result = <<Zero>>

\* C20: for any decoded grid generatePhotoHash returns a string of exactly
\* HashRows * HashCols characters, each 0 or 1, in which the character for
\* row and col, at place row * HashCols + col, is 1 if and only if the
\* pixel at (row, col) is strictly greater than the pixel at (row, col + 1).
C20_DifferenceHash ==
    lastCall.fn = "generatePhotoHash" =>
        LET data == lastCall.args[1]
            hash == lastCall.result[1]
            pixel(row, col) == data[row * (HashCols + 1) + col + 1]
        IN  /\ lastCall.outcome = "returned"
            /\ Len(hash) = HashRows * HashCols
            /\ \A b \in 1 .. Len(hash) : hash[b] \in {0, 1}
            /\ \A row \in 0 .. (HashRows - 1), col \in 0 .. (HashCols - 1) :
                  hash[row * HashCols + col + 1] = 1
                      <=> pixel(row, col) > pixel(row, col + 1)

\* A grid whose first row falls once, stays level and rises, and whose
\* second row is level, has been fingerprinted: one bit is set.
C20_Witness ==
    /\ lastCall.fn = "generatePhotoHash"
    /\ \A col \in 0 .. HashCols :
          /\ lastCall.args[1][col + 1] = (IF col = 0 \/ col = HashCols THEN 1 ELSE 0)
          /\ lastCall.args[1][HashCols + 1 + col + 1] = 1
    /\ lastCall.result[1][1] = 1
    /\ \A b \in 2 .. (2 * HashCols) : lastCall.result[1][b] = 0

\* Similarity of the files at two readable paths, computed once.
SimOnDisk ==
    [p \in Paths |-> [q \in Paths |->
        calculateSimilarity(HashOnDisk[p], HashOnDisk[q])]]

\* Similarity of the i-th and the j-th photo of the call.
SimOf(i, j) == SimOnDisk[photoPaths[i]][photoPaths[j]]

\* The paths at the input positions of S, in input order.
PathsAt(S) ==
    LET kept == SelectSeq([i \in 1 .. Len(photoPaths) |-> i], LAMBDA i : i \in S)
    IN  [k \in 1 .. Len(kept) |-> photoPaths[kept[k]]]

\* For each photo k, the photos at least as similar as the threshold to it.
ClustersOf ==
    [k \in 1 .. Len(photoPaths) |->
        {j \in 1 .. Len(photoPaths) : RatGeq(SimOf(j, k), similarityThreshold)}]

\* The photos that no photo of their cluster comes before: those that can
\* be the first photo of a cluster.
FirstsOf(cluster) ==
    {k \in 1 .. Len(photoPaths) : \A j \in cluster[k] : j >= k}

\* The input consists of clusters whose first photos are the positions F,
\* taken among FirstsOf(cluster), cluster[k] being the photos at least as
\* similar as the threshold to k: every photo is in the cluster of exactly
\* one photo of F.
ClusteredBy(F, cluster) ==
    \A j \in 1 .. Len(photoPaths) :
        \E k \in F : j \in cluster[k] /\ \A k2 \in F \ {k} : j \notin cluster[k2]

RECURSIVE ReadOff(_, _, _, _)
ReadOff(a, i, b, j) ==
    IF i > Len(a) THEN TRUE
    ELSE IF j > Len(b) THEN FALSE
    ELSE IF a[i] = b[j] THEN ReadOff(a, i + 1, b, j + 1)
    ELSE ReadOff(a, i, b, j + 1)

\* a is b with some elements left out, the order kept.
InInputOrder(a, b) == ReadOff(a, 1, b, 1)

\* C22: in the result of either strategy the first photos of the groups
\* occur in the input in the order of the groups, the photos of each group
\* are in input order, the k-th group has the id item-k, and so the ids of
\* one result are pairwise distinct.
C22_OrderAndIds ==
    pc = "returned" =>
        /\ InInputOrder([g \in 1 .. Len(groups) |-> groups[g].photos[1]], photoPaths)
        /\ \A g \in 1 .. Len(groups) :
              /\ InInputOrder(groups[g].photos, photoPaths)
              /\ groups[g].id = <<"item", g>>
        /\ \A g, h \in 1 .. Len(groups) : g # h => groups[g].id # groups[h].id

\* The average-linkage call has returned three groups for four distinct
\* photos, the photos of the first group not being neighbours in the input.
C22_Witness ==
    /\ pc = "returned"
    /\ strategy = "advanced"
    /\ Distinct(photoPaths)
    /\ Len(photoPaths) = MaxPhotos
    /\ Len(groups) = 3
    /\ groups[1].photos = <<photoPaths[1], photoPaths[3]>>
    /\ groups[2].photos = <<photoPaths[2]>>
    /\ groups[3].id = <<"item", 3>>

\* The positions of S as a sequence, in increasing order.
Ascending(S) == SelectSeq([i \in 1 .. Len(photoPaths) |-> i], LAMBDA i : i \in S)

\* Photo j is at least as similar as the threshold to photo i.
Near(i, j) == RatGeq(SimOf(i, j), similarityThreshold)

\* The seeds among the first k photos by the rule of C23: a photo is a seed
\* exactly when it is near no earlier seed.
RECURSIVE SeedsUpTo(_)
SeedsUpTo(k) ==
    IF k = 0 THEN {}
    ELSE LET earlier == SeedsUpTo(k - 1)
         IN  IF \E i \in earlier : Near(i, k) THEN earlier ELSE earlier \cup {k}

AgreeOnDisk ==
    [p \in Paths |-> [q \in Paths |->
        HashLen - Differing(HashOnDisk[p], HashOnDisk[q], HashLen)]]

\* Agreeing bits of photo j with the photos at the positions G, in total.
RECURSIVE AgreeTotal(_, _)
AgreeTotal(G, j) ==
    IF G = {} THEN 0
    ELSE LET k == CHOOSE k \in G : TRUE
         IN  AgreeOnDisk[photoPaths[k]][photoPaths[j]] + AgreeTotal(G \ {k}, j)

\* The average similarity of photo j to the photos at the positions G is at
\* least the threshold.
AverageNear(G, j) ==
    AgreeTotal(G, j) * similarityThreshold.d
        >= similarityThreshold.n * HashLen * Cardinality(G)

\* The group of seed i as it stands after photo j has been visited, the
\* photos of taken belonging to earlier groups, by the rule of C24.
RECURSIVE GrownUpTo(_, _, _)
GrownUpTo(i, taken, j) ==
    IF j = i THEN {i}
    ELSE LET before == GrownUpTo(i, taken, j - 1)
         IN  IF j \notin taken /\ AverageNear(before, j)
             THEN before \cup {j} ELSE before

\* The groups by the rule of C24, as sets of positions, from photo i on.
RECURSIVE GrownFrom(_, _, _)
GrownFrom(i, taken, grown) ==
    IF i > Len(photoPaths) THEN grown
    ELSE IF i \in taken THEN GrownFrom(i + 1, taken, grown)
    ELSE LET G == GrownUpTo(i, taken, Len(photoPaths))
         IN  GrownFrom(i + 1, taken \cup G, Append(grown, G))

\* C24: in groupPhotosByItemAdvanced the group of a seed grows by visiting
\* each later unassigned photo once, in input order; the photo joins if and
\* only if the average of its similarities to the photos in the group at
\* that moment is at least the threshold, and a photo refused at its visit
\* stays out of that group.
C24_AverageLinkage ==
    strategy = "advanced" /\ pc = "returned" /\ Len(photoPaths) > 0 =>
        LET grown == GrownFrom(1, {}, <<>>)
        IN  /\ Len(groups) = Len(grown)
            /\ \A g \in 1 .. Len(grown) : groups[g].photos = PathsAt(grown[g])

\* The average-linkage call has returned for four distinct photos: the
\* second photo was refused by the first group at its visit and stays out,
\* although its average similarity to the group as it ended is at least the
\* threshold; the last photo joined on its average, not being near the seed.
C24_Witness ==
    /\ strategy = "advanced"
    /\ pc = "returned"
    /\ Distinct(photoPaths)
    /\ Len(photoPaths) = MaxPhotos
    /\ groups[1].photos = <<photoPaths[1], photoPaths[3], photoPaths[MaxPhotos]>>
    /\ ~AverageNear({1}, 2)
    /\ AverageNear({1, 3, MaxPhotos}, 2)
    /\ ~AverageNear({1}, MaxPhotos)

\* C25: every group returned by groupPhotosByItem has confidence 17/20
\* (0.85) if it has more than one photo and 1/2 if it has exactly one,
\* whatever the threshold and the similarities are.
C25_GreedyConfidence ==
    strategy = "greedy" /\ pc = "returned" =>
        \A g \in 1 .. Len(groups) :
            LET c == groups[g].confidence
            IN  IF Len(groups[g].photos) > 1
                THEN c.n * 20 = 17 * c.d
                ELSE Len(groups[g].photos) = 1 /\ c.n * 2 = c.d

\* The greedy call has returned a group of two photos that agree on fewer
\* than half their bits, at a threshold below 1/2, and a group of one.
C25_Witness ==
    /\ strategy = "greedy"
    /\ pc = "returned"
    /\ Len(groups) = 2
    /\ groups[1].photos = <<photoPaths[1], photoPaths[2]>>
    /\ Len(groups[2].photos) = 1
    /\ RatGt(Conf05, similarityThreshold)
    /\ RatGt(Conf05, SimOf(1, 2))
    /\ groups[1].confidence = Conf085
    /\ groups[2].confidence = Conf05

\* The pairs of places k < l of a list of photos.
PairsOf(photos) == {pair \in (1 .. Len(photos)) \X (1 .. Len(photos)) : pair[1] < pair[2]}

\* Agreeing bits of the photos at the pairs of places P, in total.
RECURSIVE AgreeOverPairs(_, _)
AgreeOverPairs(photos, P) ==
    IF P = {} THEN 0
    ELSE LET pair == CHOOSE pair \in P : TRUE
         IN  AgreeOnDisk[photos[pair[1]]][photos[pair[2]]]
                 + AgreeOverPairs(photos, P \ {pair})

\* C26: every group returned by groupPhotosByItemAdvanced with at least two
\* photos has as confidence the mean, over the pairs of distinct members, of
\* their similarities (agreeing bits / HashLen); a group of one has 1/2.
C26_AdvancedConfidence ==
    strategy = "advanced" /\ pc = "returned" =>
        \A g \in 1 .. Len(groups) :
            LET photos == groups[g].photos
                c == groups[g].confidence
                pairs == PairsOf(photos)
            IN  IF Len(photos) >= 2
                THEN /\ c.d > 0
                     /\ c.n * Cardinality(pairs) * HashLen
                            = AgreeOverPairs(photos, pairs) * c.d
                ELSE Len(photos) = 1 /\ c.n * 2 = c.d

\* The average-linkage call has returned a group of three photos whose
\* three similarities are not all equal.
C26_Witness ==
    /\ strategy = "advanced"
    /\ pc = "returned"
    /\ Len(groups) >= 1
    /\ Len(groups[1].photos) = 3
    /\ LET photos == groups[1].photos
       IN  /\ AgreeOnDisk[photos[1]][photos[2]] # AgreeOnDisk[photos[1]][photos[3]]
           /\ AgreeOnDisk[photos[1]][photos[3]] # AgreeOnDisk[photos[2]][photos[3]]
    /\ InUnitRange(similarityThreshold)

\* C27: in every result of groupPhotosByItemAdvanced the confidence of each
\* group of two or more photos is at least the threshold of the call.
C27_ConfidenceAtLeastThreshold ==
    strategy = "advanced" /\ pc = "returned" =>
        \A g \in 1 .. Len(groups) :
            Len(groups[g].photos) >= 2 =>
                groups[g].confidence.n * similarityThreshold.d
                    >= similarityThreshold.n * groups[g].confidence.d

\* The average-linkage call has returned, at a threshold in (0, 1], a group
\* of three photos of which two are less similar to each other than the
\* threshold.
C27_Witness ==
    /\ strategy = "advanced"
    /\ pc = "returned"
    /\ InUnitRange(similarityThreshold)
    /\ similarityThreshold.n > 0
    /\ Len(groups) >= 1
    /\ Len(groups[1].photos) = 3
    /\ \E k, l \in 1 .. 3 :
          /\ k < l
          /\ AgreeOnDisk[groups[1].photos[k]][groups[1].photos[l]] * similarityThreshold.d
                 < similarityThreshold.n * HashLen
    /\ RatGeq(groups[1].confidence, similarityThreshold)

\* C28: under any sequence of mergeGroups and splitPhotoFromGroup, the
\* caller replacing the affected groups, no two groups of the GroupSet share
\* an id.  Stated on the GroupSets that are still a partition of the input
\* into well-formed groups, so that no split of a photo from a group that
\* does not hold it is involved.
C28_IdsDistinct ==
    (/\ InUnitRange(similarityThreshold)
     /\ \A p \in Range(photoPaths) : Cardinality(GroupsHolding(groups, p)) = 1
     /\ \A g \in 1 .. Len(groups) :
           /\ GroupWellFormed(groups[g])
           /\ Range(groups[g].photos) \subseteq Range(photoPaths)) =>
        \A g, h \in 1 .. Len(groups) : groups[g].id = groups[h].id => g = h

\* C29: under any sequence of mergeGroups and splitPhotoFromGroup on a
\* clustering result, whose confidences are all in [0,1], every group's
\* confidence stays in [0,1], and the group that keeps its id through a
\* correction (the merged group, the updatedGroup) has a confidence no
\* greater than before while every other group is either untouched or the
\* newGroup of the split.
C29_ConfidenceInRange ==
    /\ [](\A g \in 1 .. Len(groups) : InUnitRange(groups[g].confidence))
    /\ [][LET before == lastCall'.args[1]
              kept == lastCall'.result[1]
          IN  /\ kept.id = before.id
              /\ before \in Range(groups)
              /\ kept \in Range(groups')
              /\ RatGeq(before.confidence, kept.confidence)
              /\ \A h \in Range(groups') :
                    \/ h = kept
                    \/ h \in Range(groups)
                    \/ /\ lastCall'.fn = "splitPhotoFromGroup"
                       /\ h = lastCall'.result[2]]_vars

\* Two corrections have been applied, the last a mergeGroups whose second
\* group had the lesser confidence, and the merged group's confidence is
\* strictly below the first group's.
C29_Witness ==
    /\ corrections = 2
    /\ lastCall.fn = "mergeGroups"
    /\ RatGt(lastCall.args[1].confidence, lastCall.args[2].confidence)
    /\ RatGt(lastCall.args[2].confidence, lastCall.result[1].confidence)
    /\ RatGt(lastCall.result[1].confidence, Zero)
    /\ lastCall.result[1] \in Range(groups)

\* The fingerprint of the i-th photo of the input.
FingerprintAt(i) == HashOnDisk[photoPaths[i]]

\* The photos whose fingerprint no earlier photo has.
FirstOccurrences ==
    {i \in 1 .. Len(photoPaths) :
        \A k \in 1 .. (i - 1) : FingerprintAt(k) # FingerprintAt(i)}

============================================================================
